---- MODULE Spec2Model ----
(***************************************************************************)
(* Model of server/main.py: the /parse handler that aggregates an Apple    *)
(* Health export (structured path over the parser's tables, fallback raw   *)
(* scan, workout tabulation, final metrics).                               *)
(*                                                                         *)
(* Representation of values:                                               *)
(*   - an XML attribute is <<>> when absent and <<v>> when present         *)
(*     (attrib.get returns None or the text);                              *)
(*   - text that the code inspects character by character (sleep value,    *)
(*     duration unit, activity type, numbers) is a sequence of one         *)
(*     character strings;                                                  *)
(*   - a timestamp text is [ok, wall, off]: ok = FALSE is text that        *)
(*     neither strptime nor fromisoformat accepts, otherwise wall is the   *)
(*     wall clock in seconds since 2023-01-01 00:00:00 and off the UTC     *)
(*     offset in seconds;                                                  *)
(*   - a parsed datetime / float is <<>> for None / NaN and <<x>> else;    *)
(*   - floats parsed from value or duration are exact rationals held in    *)
(*     thousandths; hours are held in seconds (1/3600 h), minutes of       *)
(*     mindfulness in 1/300 min, so that both the exact sums and their     *)
(*     two-decimal roundings are integers.                                 *)
(***************************************************************************)
EXTENDS Integers, Sequences, FiniteSets, TLC

\* ------------------------------------------------------------- text

UpperCase == <<"A","B","C","D","E","F","G","H","I","J","K","L","M",
               "N","O","P","Q","R","S","T","U","V","W","X","Y","Z">>

LowerCase == <<"a","b","c","d","e","f","g","h","i","j","k","l","m",
               "n","o","p","q","r","s","t","u","v","w","x","y","z">>

LowerChar(c) ==
  IF \E i \in 1..26 : UpperCase[i] = c
    THEN LowerCase[CHOOSE i \in 1..26 : UpperCase[i] = c]
    ELSE c

\* str.lower()
Lower(s) == [i \in 1..Len(s) |-> LowerChar(s[i])]

\* sub in s
Contains(sub, s) ==
  \E i \in 0..(Len(s) - Len(sub)) : SubSeq(s, i + 1, i + Len(sub)) = sub

\* s.replace(old, ""): leftmost occurrences, left to right
RECURSIVE Remove(_, _)
Remove(s, old) ==
  IF Len(s) < Len(old) THEN s
  ELSE IF SubSeq(s, 1, Len(old)) = old
    THEN Remove(SubSeq(s, Len(old) + 1, Len(s)), old)
    ELSE <<s[1]>> \o Remove(Tail(s), old)

Digits == <<"0","1","2","3","4","5","6","7","8","9">>

IsDigit(c) == \E i \in 1..10 : Digits[i] = c

DigitVal(c) == (CHOOSE i \in 1..10 : Digits[i] = c) - 1

RECURSIVE DigitsVal(_)
DigitsVal(s) ==
  IF s = <<>> THEN 0 ELSE 10 * DigitsVal(SubSeq(s, 1, Len(s) - 1)) + DigitVal(s[Len(s)])

AllDigits(s) == \A i \in 1..Len(s) : IsDigit(s[i])

\* the unsigned part of a float literal, in thousandths: d+ or d+.d{1,3}
UnsignedMilli(s) ==
  IF s # <<>> /\ AllDigits(s) THEN <<1000 * DigitsVal(s)>>
  ELSE IF \E p \in 2..(Len(s) - 1) :
            /\ s[p] = "."
            /\ Len(s) - p <= 3
            /\ AllDigits(SubSeq(s, 1, p - 1))
            /\ AllDigits(SubSeq(s, p + 1, Len(s)))
    THEN LET p == CHOOSE q \in 2..(Len(s) - 1) : s[q] = "."
             frac == SubSeq(s, p + 1, Len(s))
             scale == IF Len(frac) = 1 THEN 100 ELSE IF Len(frac) = 2 THEN 10 ELSE 1
         IN <<1000 * DigitsVal(SubSeq(s, 1, p - 1)) + scale * DigitsVal(frac)>>
    ELSE <<>>

\* float(text) / pd.to_numeric(text, errors="coerce") on a present text:
\* <<>> when the text is no number (ValueError, NaN)
ParseFloat(s) ==
  IF s # <<>> /\ s[1] = "-"
    THEN LET u == UnsignedMilli(Tail(s)) IN IF u = <<>> THEN <<>> ELSE <<-u[1]>>
    ELSE UnsignedMilli(s)

\* ------------------------------------------------------------- numbers

\* round(n / d) for d > 0: Python 3 rounds half to even
RoundHalfEven(n, d) ==
  LET q == n \div d
      r == n % d
  IN IF 2 * r < d THEN q
     ELSE IF 2 * r > d THEN q + 1
     ELSE IF q % 2 = 0 THEN q ELSE q + 1

\* int(n / d) for d > 0: truncation towards zero
TruncDiv(n, d) == IF n >= 0 THEN n \div d ELSE -((-n) \div d)

Max(a, b) == IF a >= b THEN a ELSE b

RECURSIVE SumSeq(_)
SumSeq(s) == IF s = <<>> THEN 0 ELSE s[1] + SumSeq(Tail(s))

\* round(hours, 2) on hours held in seconds: a hundredth of an hour is 36 s
Round2Hours(h) == 36 * RoundHalfEven(h, 36)

\* round(minutes, 2) on minutes held in 1/300 min: a hundredth is 3 units
Round2Minutes(m) == 3 * RoundHalfEven(m, 3)

\* round(x, 2) on a float held in thousandths
Round2Milli(x) == 10 * RoundHalfEven(x, 10)

\* ------------------------------------------------------------- time

\* _parse_dt: None for a missing, empty or unparseable text, otherwise the
\* aware datetime, held as its UTC instant in seconds
ParseDt(a) ==
  IF a = <<>> THEN <<>>
  ELSE IF ~a[1].ok THEN <<>>
  ELSE <<a[1].wall - a[1].off>>

\* pd.to_datetime(text, errors="coerce", utc=True): NaT or the UTC instant
ToDatetimeUtc(a) ==
  IF a = <<>> THEN <<>>
  ELSE IF ~a[1].ok THEN <<>>
  ELSE <<a[1].wall - a[1].off>>

MonthDays == <<31, 28, 31, 30, 31, 30, 31, 31, 30, 31, 30, 31>>

\* ordinal of the UTC calendar date of instant t (0 is 2023-01-01):
\* the "%Y-%m-%d" key / the "D" period / dt.date
DayKey(t) == t \div 86400

RECURSIVE MonthFrom(_, _)
MonthFrom(d, m) ==
  IF m = 12 \/ d < MonthDays[m] THEN m ELSE MonthFrom(d - MonthDays[m], m + 1)

\* number of the UTC calendar month of instant t: the "%Y-%m" key / "M" period
MonthKey(t) == MonthFrom(DayKey(t), 1)

MonthNames == <<"2023-01", "2023-02", "2023-03", "2023-04", "2023-05", "2023-06",
                "2023-07", "2023-08", "2023-09", "2023-10", "2023-11", "2023-12">>

\* strftime("%Y-%m") / str(Period)
MonthStr(m) == MonthNames[m]

\* ------------------------------------------------------------- record types

StepCount == "HKQuantityTypeIdentifierStepCount"
ActiveEnergyBurned == "HKQuantityTypeIdentifierActiveEnergyBurned"
HeartRate == "HKQuantityTypeIdentifierHeartRate"
RestingHeartRate == "HKQuantityTypeIdentifierRestingHeartRate"
SleepAnalysis == "HKCategoryTypeIdentifierSleepAnalysis"
MindfulSession == "HKCategoryTypeIdentifierMindfulSession"

Flags == {StepCount, ActiveEnergyBurned, HeartRate, RestingHeartRate,
          SleepAnalysis, MindfulSession}

SleepPrefix == <<"H","K","C","a","t","e","g","o","r","y","V","a","l","u","e",
                 "S","l","e","e","p","A","n","a","l","y","s","i","s">>

Asleep == <<"A","s","l","e","e","p">>

asleep_values ==
  { SleepPrefix \o Asleep,
    SleepPrefix \o Asleep \o <<"C","o","r","e">>,
    SleepPrefix \o Asleep \o <<"D","e","e","p">>,
    SleepPrefix \o Asleep \o <<"R","E","M">>,
    SleepPrefix \o Asleep \o <<"U","n","s","p","e","c","i","f","i","e","d">>,
    <<"1">> }

\* ------------------------------------------------------------- dict helpers

\* a dict (insertion ordered) is a sequence of <<key, value>> pairs
DictKeys(d) == { d[i][1] : i \in 1..Len(d) }

DictGet(d, k) ==
  IF k \in DictKeys(d) THEN d[CHOOSE i \in 1..Len(d) : d[i][1] = k][2] ELSE 0

\* d[k] += v on a defaultdict(float)
DictAdd(d, k, v) ==
  IF k \in DictKeys(d)
    THEN [i \in 1..Len(d) |-> IF d[i][1] = k THEN <<k, d[i][2] + v>> ELSE d[i]]
    ELSE Append(d, <<k, v>>)

\* sorted(d.items()) / .sort_index(): ascending by key
RECURSIVE SortByKey(_)
SortByKey(d) ==
  IF d = <<>> THEN <<>>
  ELSE LET k == CHOOSE x \in DictKeys(d) : \A y \in DictKeys(d) : x <= y
       IN <<<<k, DictGet(d, k)>>>> \o SortByKey(SelectSeq(d, LAMBDA e : e[1] # k))

\* max(d, key=lambda k: d[k]) and Series.idxmax(): the first key, in the
\* mapping's order, whose value no later key exceeds strictly
RECURSIVE MutArgMaxLast(_, _, _)
\* mutant of ArgMaxFrom: a later key replaces the best on an equal value
MutArgMaxLast(d, i, best) ==
  IF i > Len(d) THEN d[best][1]
  ELSE MutArgMaxLast(d, i + 1, IF d[i][2] >= d[best][2] THEN i ELSE best)

RECURSIVE ArgMaxFrom(_, _, _)
ArgMaxFrom(d, i, best) ==
  IF i > Len(d) THEN d[best][1]
  ELSE ArgMaxFrom(d, i + 1, IF d[i][2] > d[best][2] THEN i ELSE best)

ArgMax(d) == ArgMaxFrom(d, 2, 1)

\* ------------------------------------------------------------- raw scan

\* the aggregators of _scan_records_once before the first element
ScanInit ==
  [ steps_total |-> 0, steps_daily |-> <<>>, steps_monthly |-> <<>>,
    energy_total |-> 0, energy_daily |-> <<>>,
    hr_sum |-> 0, hr_count |-> 0, rhr_sum |-> 0, rhr_count |-> 0,
    sleep_total_hours |-> 0, sleep_monthly_hours |-> <<>>, sleep_night_dates |-> {},
    mindful_total_min |-> 0, mindful_sessions |-> 0 ]

\* v = float(val) if val is not None else 0.0, 0.0 on an exception
ScanValue(val) ==
  IF val = <<>> THEN 0
  ELSE IF ParseFloat(val[1]) = <<>> THEN 0
  ELSE ParseFloat(val[1])[1]

\* raw in asleep_values or "Asleep" in raw, with raw = val or ""
ScanIsAsleep(val) ==
  LET raw == IF val = <<>> THEN <<>> ELSE val[1]
  IN raw \in asleep_values \/ Contains(Asleep, raw)

\* one iteration of the loop over the elements of the file
ScanStep(a, elem) ==
  LET rtype == elem.type
      start == ParseDt(elem.startDate)
      end == ParseDt(elem.endDate)
      v == ScanValue(elem.value)
  IN
  IF elem.tag # "Record" THEN a
  ELSE IF rtype = "" THEN a
  ELSE IF rtype = StepCount THEN
    IF start # <<>> /\ v > 0
      THEN [a EXCEPT !.steps_total = @ + v,
                     !.steps_daily = DictAdd(@, DayKey(start[1]), v),
                     !.steps_monthly = DictAdd(@, MonthKey(start[1]), v)]
      ELSE a
  ELSE IF rtype = ActiveEnergyBurned THEN
    IF start # <<>> /\ v > 0
      THEN [a EXCEPT !.energy_total = @ + v,
                     !.energy_daily = DictAdd(@, DayKey(start[1]), v)]
      ELSE a
  ELSE IF rtype = HeartRate THEN
    IF v > 0 THEN [a EXCEPT !.hr_sum = @ + v, !.hr_count = @ + 1] ELSE a
  ELSE IF rtype = RestingHeartRate THEN
    IF v > 0 THEN [a EXCEPT !.rhr_sum = @ + v, !.rhr_count = @ + 1] ELSE a
  ELSE IF rtype = SleepAnalysis THEN
    IF start # <<>> /\ end # <<>> /\ end[1] > start[1]
         /\ ScanIsAsleep(elem.value) /\ end[1] - start[1] > 0
      THEN [a EXCEPT !.sleep_total_hours = @ + (end[1] - start[1]),
                     !.sleep_monthly_hours = DictAdd(@, MonthKey(start[1]), end[1] - start[1]),
                     !.sleep_night_dates = @ \cup {DayKey(start[1])}]
      ELSE a
  ELSE IF rtype = MindfulSession THEN
    IF start # <<>> /\ end # <<>> /\ end[1] > start[1] /\ end[1] - start[1] > 0
      THEN [a EXCEPT !.mindful_total_min = @ + 5 * (end[1] - start[1]),
                     !.mindful_sessions = @ + 1]
      ELSE a
  ELSE a

RECURSIVE ScanLoop(_, _)
ScanLoop(a, elems) ==
  IF elems = <<>> THEN a ELSE ScanLoop(ScanStep(a, elems[1]), Tail(elems))

\* best_steps_month / best_sleep_month
ScanBestMonth(monthly) ==
  IF monthly # <<>> THEN MonthStr(ArgMax(monthly)) ELSE ""

\* the dictionary _scan_records_once returns
ScanResult(a) ==
  LET steps_days == Max(1, Len(a.steps_daily))
      energy_days == Max(1, Len(a.energy_daily))
      sleep_nights == Max(1, Cardinality(a.sleep_night_dates))
      steps_monthly_sorted == SortByKey(a.steps_monthly)
  IN
  [ steps |->
      [ total |-> RoundHalfEven(a.steps_total, 1000),
        average |-> RoundHalfEven(a.steps_total, 1000 * steps_days),
        bestMonth |-> ScanBestMonth(a.steps_monthly),
        monthlyData |->
          [i \in 1..Len(steps_monthly_sorted) |->
             [month |-> MonthStr(steps_monthly_sorted[i][1]),
              value |-> RoundHalfEven(steps_monthly_sorted[i][2], 1000)]] ],
    energy |->
      [ total |-> a.energy_total,
        average |-> RoundHalfEven(a.energy_total, 1000 * energy_days) ],
    heart |->
      [ avg |-> IF a.hr_count # 0 THEN RoundHalfEven(a.hr_sum, 1000 * a.hr_count) ELSE 0,
        rest |-> IF a.rhr_count # 0 THEN RoundHalfEven(a.rhr_sum, 1000 * a.rhr_count) ELSE 0 ],
    sleep |->
      [ totalHours |-> Round2Hours(a.sleep_total_hours),
        averageHours |->
          IF a.sleep_total_hours # 0
            THEN 36 * RoundHalfEven(a.sleep_total_hours, 36 * sleep_nights)
            ELSE 0,
        bestMonth |-> ScanBestMonth(a.sleep_monthly_hours) ],
    mindful |->
      [ total |-> IF a.mindful_total_min # 0 THEN Round2Minutes(a.mindful_total_min) ELSE 0,
        sessions |-> a.mindful_sessions ] ]

_scan_records_once(elems) == ScanResult(ScanLoop(ScanInit, elems))

\* ------------------------------------------------------------- state

VARIABLES
  xml_file,           \* the elements of export.xml, in document order
  parserGaps,         \* the flags for which parser.get_flag_records raises
  pc,                 \* the block of parse that runs next
  steps_total, steps_avg, steps_best_month, steps_monthly, daily_step_days,
  energy_total, energy_avg,
  hr_avg, rhr_avg,
  sleep_total_h, sleep_avg_h, sleep_best_month,
  mindful_total_min, mindful_sessions,
  need,               \* need_steps, need_energy, need_hr, need_sleep, need_mindful
  wk_count, wk_types, wk_total_minutes,
  metrics

inputVars == <<xml_file, parserGaps>>
stepsVars == <<steps_total, steps_avg, steps_best_month, steps_monthly, daily_step_days>>
energyVars == <<energy_total, energy_avg>>
heartVars == <<hr_avg, rhr_avg>>
sleepVars == <<sleep_total_h, sleep_avg_h, sleep_best_month>>
mindfulVars == <<mindful_total_min, mindful_sessions>>
workoutVars == <<wk_count, wk_types, wk_total_minutes>>

vars == <<inputVars, pc, stepsVars, energyVars, heartVars, sleepVars, mindfulVars,
          need, workoutVars, metrics>>

\* ------------------------------------------------------------- structured path

\* _unwrap_value_series on one row: _value_raw, _value_num, _value_str
ValueNum(val) == IF val = <<>> THEN <<>> ELSE ParseFloat(val[1])

ValueStr(val) == IF val = <<>> THEN <<"N","o","n","e">> ELSE val[1]

\* _df_for: None (here <<>>) when get_flag_records raises or the table is
\* empty, otherwise the rows of that flag with _sd, _ed and the value columns
DfFor(elems, gaps, flag) ==
  IF flag \in gaps THEN <<>>
  ELSE LET rows == SelectSeq(elems, LAMBDA r : r.tag = "Record" /\ r.type = flag)
       IN [i \in 1..Len(rows) |->
             [ sd |-> ToDatetimeUtc(rows[i].startDate),
               ed |-> ToDatetimeUtc(rows[i].endDate),
               raw |-> rows[i].value,
               num |-> ValueNum(rows[i].value),
               str |-> ValueStr(rows[i].value) ]]

\* df[col].fillna(0).sum() / .sum() skipping NaN
RECURSIVE SumNum(_)
SumNum(df) ==
  IF df = <<>> THEN 0
  ELSE (IF df[1].num = <<>> THEN 0 ELSE df[1].num[1]) + SumNum(Tail(df))

\* df.groupby(_period_key(df["_sd"], "D"))[...].sum().size: rows whose key
\* is NaT form no group
DayGroups(df) == { DayKey(df[i].sd[1]) : i \in { j \in 1..Len(df) : df[j].sd # <<>> } }

\* df.groupby(_period_key(df["_sd"], "M"))["_value_num"].sum().sort_index()
RECURSIVE MonthSumsNum(_, _)
MonthSumsNum(df, d) ==
  IF df = <<>> THEN d
  ELSE MonthSumsNum(Tail(df),
         IF df[1].sd = <<>> THEN d
         ELSE DictAdd(d, MonthKey(df[1].sd[1]), IF df[1].num = <<>> THEN 0 ELSE df[1].num[1]))

MonthlyNum(df) == SortByKey(MonthSumsNum(df, <<>>))

\* str(monthly.idxmax()) if not monthly.empty
StructBestMonth(monthly) ==
  IF monthly # <<>> THEN MonthStr(ArgMax(monthly)) ELSE ""

\* the Steps block of parse
StructSteps(df) ==
  LET total == IF df = <<>> THEN 0 ELSE TruncDiv(SumNum(df), 1000)
      days == IF Cardinality(DayGroups(df)) # 0 THEN Cardinality(DayGroups(df)) ELSE 1
      monthly == MonthlyNum(df)
  IN IF df # <<>> /\ total > 0
       THEN [ total |-> total,
              days |-> days,
              avg |-> RoundHalfEven(total, days),
              monthly |-> [i \in 1..Len(monthly) |->
                             [month |-> MonthStr(monthly[i][1]),
                              value |-> TruncDiv(monthly[i][2], 1000)]],
              best_month |-> StructBestMonth(monthly) ]
       ELSE [ total |-> total, days |-> 0, avg |-> 0, monthly |-> <<>>, best_month |-> "" ]

\* energy_days = int(energy_daily.size) or (daily_step_days or 1)
EnergyDays(df, step_days) ==
  IF Cardinality(DayGroups(df)) # 0 THEN Cardinality(DayGroups(df))
  ELSE IF step_days # 0 THEN step_days ELSE 1

\* the Active energy block of parse
StructEnergy(df, step_days) ==
  LET total == IF df = <<>> THEN 0 ELSE SumNum(df)
  IN IF df # <<>> /\ total > 0
       THEN [ total |-> total,
              avg |-> RoundHalfEven(total, 1000 * EnergyDays(df, step_days)) ]
       ELSE [ total |-> total, avg |-> 0 ]

\* the Heart rate and Resting HR blocks: int(round(mean)) of the non-NaN values
StructHeart(df) ==
  LET there == SelectSeq(df, LAMBDA r : r.num # <<>>)
  IN IF there # <<>> THEN RoundHalfEven(SumNum(there), 1000 * Len(there)) ELSE 0

\* mutant of StructIsAsleep: the substring matched with regard to case
MutStructIsAsleepCased(row) ==
  \/ (row.raw # <<>> /\ row.raw[1] \in asleep_values)
  \/ Contains(Asleep, row.str)

\* isin(asleep_values) | str.contains("Asleep", case=False, na=False)
StructIsAsleep(row) ==
  \/ (row.raw # <<>> /\ row.raw[1] \in asleep_values)
  \/ Contains(Lower(Asleep), Lower(row.str))

\* mutant of ClippedSeconds: the difference without clip(lower=0)
MutClippedSecondsNoClip(row) ==
  IF row.sd = <<>> \/ row.ed = <<>> THEN <<>>
  ELSE <<row.ed[1] - row.sd[1]>>

\* (_ed - _sd).dt.total_seconds().clip(lower=0) on one row, in seconds:
\* NaN (here <<>>) when either timestamp is NaT
ClippedSeconds(row) ==
  IF row.sd = <<>> \/ row.ed = <<>> THEN <<>>
  ELSE <<Max(row.ed[1] - row.sd[1], 0)>>

RECURSIVE SumSeconds(_)
SumSeconds(df) ==
  IF df = <<>> THEN 0
  ELSE (IF ClippedSeconds(df[1]) = <<>> THEN 0 ELSE ClippedSeconds(df[1])[1])
       + SumSeconds(Tail(df))

\* sleep_asleep.groupby(_period_key(sleep_asleep["_sd"], "M"))["hours"].sum().sort_index()
RECURSIVE MonthSumsHours(_, _)
MonthSumsHours(df, d) ==
  IF df = <<>> THEN d
  ELSE MonthSumsHours(Tail(df),
         IF df[1].sd = <<>> THEN d
         ELSE DictAdd(d, MonthKey(df[1].sd[1]),
                      IF ClippedSeconds(df[1]) = <<>> THEN 0 ELSE ClippedSeconds(df[1])[1]))

MonthlyHours(df) == SortByKey(MonthSumsHours(df, <<>>))

\* sleep_df[asleep]
SleepAsleep(df) == SelectSeq(df, StructIsAsleep)

\* int(sleep_asleep["_sd"].dt.tz_convert("UTC").dt.date.nunique()) or 1
SleepDays(sleep_asleep) ==
  IF Cardinality(DayGroups(sleep_asleep)) # 0 THEN Cardinality(DayGroups(sleep_asleep)) ELSE 1

\* the Sleep block of parse
StructSleep(df) ==
  LET sleep_asleep == SleepAsleep(df)
      total == SumSeconds(sleep_asleep)
  IN IF sleep_asleep # <<>> /\ total > 0
       THEN [ total |-> total,
              avg |-> 36 * RoundHalfEven(total, 36 * SleepDays(sleep_asleep)),
              best_month |-> StructBestMonth(MonthlyHours(sleep_asleep)) ]
       ELSE [ total |-> 0, avg |-> 0, best_month |-> "" ]

\* the Mindful block of parse: minutes in 1/300 min, one session per row
StructMindful(df) ==
  IF df # <<>>
    THEN [ total |-> 5 * SumSeconds(df), sessions |-> Len(df) ]
    ELSE [ total |-> 0, sessions |-> 0 ]

\* ------------------------------------------------------------- actions

Steps ==
  /\ pc = "steps"
  /\ LET s == StructSteps(DfFor(xml_file, parserGaps, StepCount))
     IN /\ steps_total' = s.total
        /\ steps_avg' = s.avg
        /\ steps_best_month' = s.best_month
        /\ steps_monthly' = s.monthly
        /\ daily_step_days' = s.days
  /\ pc' = "energy"
  /\ UNCHANGED <<inputVars, energyVars, heartVars, sleepVars, mindfulVars, need,
                 workoutVars, metrics>>

ActiveEnergy ==
  /\ pc = "energy"
  /\ LET e == StructEnergy(DfFor(xml_file, parserGaps, ActiveEnergyBurned), daily_step_days)
     IN /\ energy_total' = e.total
        /\ energy_avg' = e.avg
  /\ pc' = "hr"
  /\ UNCHANGED <<inputVars, stepsVars, heartVars, sleepVars, mindfulVars, need,
                 workoutVars, metrics>>

HeartRateBlock ==
  /\ pc = "hr"
  /\ hr_avg' = StructHeart(DfFor(xml_file, parserGaps, HeartRate))
  /\ pc' = "rhr"
  /\ UNCHANGED <<inputVars, stepsVars, energyVars, rhr_avg, sleepVars, mindfulVars, need,
                 workoutVars, metrics>>

RestingHR ==
  /\ pc = "rhr"
  /\ rhr_avg' = StructHeart(DfFor(xml_file, parserGaps, RestingHeartRate))
  /\ pc' = "sleep"
  /\ UNCHANGED <<inputVars, stepsVars, energyVars, hr_avg, sleepVars, mindfulVars, need,
                 workoutVars, metrics>>

Sleep ==
  /\ pc = "sleep"
  /\ LET s == StructSleep(DfFor(xml_file, parserGaps, SleepAnalysis))
     IN /\ sleep_total_h' = s.total
        /\ sleep_avg_h' = s.avg
        /\ sleep_best_month' = s.best_month
  /\ pc' = "mindful"
  /\ UNCHANGED <<inputVars, stepsVars, energyVars, heartVars, mindfulVars, need,
                 workoutVars, metrics>>

Mindful ==
  /\ pc = "mindful"
  /\ LET m == StructMindful(DfFor(xml_file, parserGaps, MindfulSession))
     IN /\ mindful_total_min' = m.total
        /\ mindful_sessions' = m.sessions
  /\ pc' = "fallback"
  /\ UNCHANGED <<inputVars, stepsVars, energyVars, heartVars, sleepVars, need,
                 workoutVars, metrics>>

\* need_steps, need_energy, need_sleep, need_mindful: the total is exactly 0
NeedTotal(total) == total = 0

\* mutant of NeedHr: the need judged on either mean alone
MutNeedHrEither(avg, rest) == avg = 0 \/ rest = 0

\* need_hr: judged jointly on the two means
NeedHr(avg, rest) == avg = 0 /\ rest = 0

\* the fallback block of parse: one scan when any category yielded zero,
\* whose values replace those of the zero-yield categories only
Fallback ==
  /\ pc = "fallback"
  /\ LET need_steps == NeedTotal(steps_total)
         need_energy == NeedTotal(energy_total)
         need_hr == NeedHr(hr_avg, rhr_avg)
         need_sleep == NeedTotal(sleep_total_h)
         need_mindful == NeedTotal(mindful_total_min)
         scanned == _scan_records_once(xml_file)
     IN /\ need' = [steps |-> need_steps, energy |-> need_energy, hr |-> need_hr,
                    sleep |-> need_sleep, mindful |-> need_mindful]
        /\ IF need_steps
             THEN /\ steps_total' = scanned.steps.total
                  /\ steps_avg' = scanned.steps.average
                  /\ steps_best_month' = scanned.steps.bestMonth
                  /\ steps_monthly' = scanned.steps.monthlyData
             ELSE UNCHANGED <<steps_total, steps_avg, steps_best_month, steps_monthly>>
        /\ IF need_energy
             THEN /\ energy_total' = scanned.energy.total
                  /\ energy_avg' = scanned.energy.average
             ELSE UNCHANGED energyVars
        /\ IF need_hr
             THEN /\ hr_avg' = scanned.heart.avg
                  /\ rhr_avg' = scanned.heart.rest
             ELSE UNCHANGED heartVars
        /\ IF need_sleep
             THEN /\ sleep_total_h' = scanned.sleep.totalHours
                  /\ sleep_avg_h' = scanned.sleep.averageHours
                  /\ sleep_best_month' = scanned.sleep.bestMonth
             ELSE UNCHANGED sleepVars
        /\ IF need_mindful
             THEN /\ mindful_total_min' = scanned.mindful.total
                  /\ mindful_sessions' = scanned.mindful.sessions
             ELSE UNCHANGED mindfulVars
  /\ pc' = "workouts"
  /\ UNCHANGED <<inputVars, daily_step_days, workoutVars, metrics>>

\* ------------------------------------------------------------- workouts

WorkoutPrefix == <<"H","K","W","o","r","k","o","u","t","A","c","t","i","v","i","t","y",
                   "T","y","p","e">>

\* (w.attrib.get("workoutActivityType") or "Other").replace("HKWorkoutActivityType", "")
WorkoutKind(w) ==
  Remove(IF w.workoutActivityType = <<>> \/ w.workoutActivityType = <<<<>>>>
           THEN <<"O","t","h","e","r">>
           ELSE w.workoutActivityType[1],
         WorkoutPrefix)

\* mutant of WorkoutUnit: the unit compared as written
MutWorkoutUnitAsWritten(w) == IF w.durationUnit = <<>> THEN <<>> ELSE w.durationUnit[1]

\* (w.attrib.get("durationUnit") or "").lower()
WorkoutUnit(w) == IF w.durationUnit = <<>> THEN <<>> ELSE Lower(w.durationUnit[1])

HourUnits == { <<"h","r">>, <<"h","o","u","r">>, <<"h","o","u","r","s">> }

\* the minutes (in thousandths) one workout adds to wk_total_minutes:
\* nothing when float(dur) raises ValueError
WorkoutMinutes(w) ==
  LET d == IF w.duration = <<>> THEN <<0>> ELSE ParseFloat(w.duration[1])
  IN IF d = <<>> THEN 0
     ELSE IF WorkoutUnit(w) \in HourUnits THEN 60 * d[1] ELSE d[1]

RECURSIVE WorkoutLoop(_, _)
WorkoutLoop(acc, nodes) ==
  IF nodes = <<>> THEN acc
  ELSE WorkoutLoop([types |-> DictAdd(acc.types, WorkoutKind(nodes[1]), 1),
                    minutes |-> acc.minutes + WorkoutMinutes(nodes[1])],
                   Tail(nodes))

Workouts ==
  /\ pc = "workouts"
  /\ LET workout_nodes == SelectSeq(xml_file, LAMBDA e : e.tag = "Workout")
         acc == WorkoutLoop([types |-> <<>>, minutes |-> 0], workout_nodes)
     IN /\ wk_count' = Len(workout_nodes)
        /\ wk_types' = acc.types
        /\ wk_total_minutes' = acc.minutes
  /\ pc' = "metrics"
  /\ UNCHANGED <<inputVars, stepsVars, energyVars, heartVars, sleepVars, mindfulVars,
                 need, metrics>>

\* ------------------------------------------------------------- result

\* mutant of TopAchievement: the text built without the emptiness test
MutTopAchievementAlways(best) == best \o " was your steps peak!"

\* f"{steps_best_month} was your steps peak!" if steps_best_month else ""
TopAchievement(best) == IF best # "" THEN best \o " was your steps peak!" ELSE ""

NoMetrics == [ built |-> FALSE ]

\* the metrics dictionary parse returns (funFact as its kilometres in tenths,
\* yearComparison as its count and plural suffix)
BuildMetrics ==
  [ built |-> TRUE,
    steps |-> [ total |-> steps_total, average |-> steps_avg,
                bestMonth |-> steps_best_month, monthlyData |-> steps_monthly ],
    workouts |-> [ total |-> wk_count, types |-> wk_types,
                   totalMinutes |-> RoundHalfEven(wk_total_minutes, 1000) ],
    sleep |-> [ averageHours |-> sleep_avg_h, totalHours |-> Round2Hours(sleep_total_h),
                bestMonth |-> sleep_best_month ],
    heartRate |-> [ average |-> hr_avg, resting |-> rhr_avg ],
    activeEnergy |-> [ total |-> Round2Milli(energy_total), average |-> energy_avg ],
    mindfulMinutes |-> [ total |-> Round2Minutes(mindful_total_min),
                         sessions |-> mindful_sessions ],
    insights |-> [ topAchievement |-> TopAchievement(steps_best_month),
                   funFact |-> RoundHalfEven(steps_total * 8, 1000),
                   yearComparison |-> <<wk_count, IF wk_count # 1 THEN "s" ELSE "">> ] ]

Metrics ==
  /\ pc = "metrics"
  /\ metrics' = BuildMetrics
  /\ pc' = "done"
  /\ UNCHANGED <<inputVars, stepsVars, energyVars, heartVars, sleepVars, mindfulVars,
                 need, workoutVars>>

Next ==
  \/ Steps
  \/ ActiveEnergy
  \/ HeartRateBlock
  \/ RestingHR
  \/ Sleep
  \/ Mindful
  \/ Fallback
  \/ Workouts
  \/ Metrics

\* ------------------------------------------------------------- inputs

\* the most elements an export.xml of the model holds
MaxElems == 3

\* an element of the file with the attributes the code reads
Rec(type, start, end, value) ==
  [ tag |-> "Record", type |-> type, startDate |-> start, endDate |-> end,
    value |-> value, workoutActivityType |-> <<>>, duration |-> <<>>,
    durationUnit |-> <<>> ]

Wk(kind, dur, unit) ==
  [ tag |-> "Workout", type |-> "", startDate |-> <<>>, endDate |-> <<>>,
    value |-> <<>>, workoutActivityType |-> kind, duration |-> dur,
    durationUnit |-> unit ]

\* a timestamp text "2023-MM-DD HH:MM:SS +HHMM": day of the year (from 0),
\* hour, minute, second and the offset in hours
At(day, h, m, sec, offh) ==
  << [ok |-> TRUE, wall |-> day * 86400 + h * 3600 + m * 60 + sec, off |-> offh * 3600] >>

\* a timestamp text no format accepts
BadText == << [ok |-> FALSE, wall |-> 0, off |-> 0] >>

Core == << SleepPrefix \o Asleep \o <<"C","o","r","e">> >>
InBed == << SleepPrefix \o <<"I","n","B","e","d">> >>
LowerAsleep == << <<"a","s","l","e","e","p">> >>

StepsElems ==
  { Rec(StepCount, At(0, 8, 0, 0, 0), At(0, 8, 5, 0, 0), << <<"5">> >>),
    Rec(StepCount, At(1, 0, 30, 0, 1), At(1, 0, 35, 0, 1), << <<"7">> >>),
    Rec(StepCount, At(1, 8, 0, 0, 0), At(1, 8, 5, 0, 0), << <<"4">> >>),
    Rec(StepCount, BadText, BadText, << <<"5">> >>),
    Rec(StepCount, At(0, 8, 0, 0, 0), At(0, 8, 5, 0, 0), << <<"-","5">> >>),
    Rec(StepCount, At(0, 8, 0, 0, 0), At(0, 8, 5, 0, 0), << <<"x">> >>),
    Rec(StepCount, At(0, 8, 0, 0, 0), At(0, 8, 5, 0, 0), <<>>),
    Rec(ActiveEnergyBurned, At(0, 8, 0, 0, 0), At(0, 8, 5, 0, 0), << <<"2",".","5">> >>),
    Rec(ActiveEnergyBurned, <<>>, <<>>, << <<"2",".","5">> >>),
    Rec(ActiveEnergyBurned, At(1, 8, 0, 0, 0), At(1, 8, 5, 0, 0), << <<"0",".","1","2","5">> >>),
    Rec(ActiveEnergyBurned, At(0, 8, 0, 0, 0), At(0, 8, 5, 0, 0), << <<"-","2",".","5">> >>) }

MonthsElems ==
  { Rec(StepCount, At(0, 8, 0, 0, 0), At(0, 8, 5, 0, 0), << <<"5">> >>),
    Rec(StepCount, At(31, 8, 0, 0, 0), At(31, 8, 5, 0, 0), << <<"5">> >>),
    Rec(StepCount, At(59, 8, 0, 0, 0), At(59, 8, 5, 0, 0), << <<"2",".","5">> >>),
    Rec(StepCount, BadText, BadText, << <<"5">> >>),
    Rec(StepCount, At(0, 8, 0, 0, 0), At(0, 8, 5, 0, 0), << <<"-","5">> >>),
    Rec(SleepAnalysis, At(0, 22, 0, 0, 0), At(0, 23, 0, 0, 0), Core),
    Rec(SleepAnalysis, At(31, 22, 0, 0, 0), At(31, 23, 0, 0, 0), Core),
    Rec(SleepAnalysis, At(59, 22, 0, 0, 0), At(59, 22, 0, 0, 0), Core),
    Rec(SleepAnalysis, At(59, 22, 0, 0, 0), At(59, 22, 10, 0, 0), << <<"1">> >>),
    Rec(SleepAnalysis, BadText, At(0, 23, 0, 0, 0), Core) }

SleepElems ==
  { Rec(SleepAnalysis, At(0, 22, 0, 0, 0), At(0, 23, 0, 0, 0), Core),
    Rec(SleepAnalysis, At(1, 22, 0, 0, 0), At(1, 22, 10, 0, 0), Core),
    Rec(SleepAnalysis, At(2, 22, 0, 0, 0), At(2, 22, 0, 0, 0), Core),
    Rec(SleepAnalysis, At(2, 22, 0, 0, 0), At(2, 21, 0, 0, 0), Core),
    Rec(SleepAnalysis, At(3, 22, 0, 0, 0), BadText, Core),
    Rec(SleepAnalysis, BadText, At(0, 23, 0, 0, 0), Core),
    Rec(SleepAnalysis, At(0, 22, 0, 0, 0), At(0, 23, 0, 0, 0), LowerAsleep),
    Rec(SleepAnalysis, At(0, 22, 0, 0, 0), At(0, 23, 0, 0, 0), InBed),
    Rec(SleepAnalysis, At(31, 22, 0, 0, 0), At(31, 23, 30, 0, 0), Core),
    Rec(SleepAnalysis, At(0, 22, 0, 0, 0), At(0, 23, 0, 0, 0), <<>>) }

MindfulElems ==
  { Rec(MindfulSession, At(0, 8, 0, 0, 0), At(0, 8, 10, 0, 0), <<>>),
    Rec(MindfulSession, At(0, 9, 0, 0, 0), At(0, 9, 0, 10, 0), <<>>),
    Rec(MindfulSession, At(1, 9, 0, 0, 1), At(1, 8, 5, 0, 0), <<>>),
    Rec(MindfulSession, At(0, 9, 0, 0, 0), At(0, 9, 0, 0, 0), <<>>),
    Rec(MindfulSession, At(0, 9, 0, 0, 0), At(0, 8, 0, 0, 0), <<>>),
    Rec(MindfulSession, At(0, 9, 0, 0, 0), BadText, <<>>),
    Rec(MindfulSession, BadText, At(0, 9, 0, 0, 0), <<>>),
    Rec(MindfulSession, <<>>, <<>>, <<>>),
    Rec(StepCount, At(0, 8, 0, 0, 0), At(0, 8, 5, 0, 0), << <<"5">> >>) }

Running == << WorkoutPrefix \o <<"R","u","n","n","i","n","g">> >>
Yoga == << WorkoutPrefix \o <<"Y","o","g","a">> >>

WorkoutElems ==
  { Wk(Running, << <<"2">> >>, << <<"h","r">> >>),
    Wk(Running, << <<"4","5">> >>, << <<"m","i","n">> >>),
    Wk(Yoga, << <<"4","5">> >>, <<>>),
    Wk(Running, << <<"a","b","c">> >>, << <<"h","r">> >>),
    Wk(<<>>, <<>>, << <<"h","r">> >>),
    Wk(Yoga, << <<"1",".","5">> >>, << <<"H","R">> >>),
    Wk(Running, << <<"0",".","5">> >>, << <<"m","i","n">> >>),
    Wk(Yoga, << <<"2">> >>, << <<"H","o","u","r","s">> >>),
    Wk(<< <<"S","w","i","m">> >>, << <<"2">> >>, << <<"h">> >>),
    Wk(Running, << <<"1">> >>, << <<"h","o","u","r">> >>),
    Rec(StepCount, At(0, 8, 0, 0, 0), At(0, 8, 5, 0, 0), << <<"5">> >>) }

BodyMass == "HKQuantityTypeIdentifierBodyMass"

MixedElems ==
  { Rec(StepCount, At(0, 8, 0, 0, 0), At(0, 8, 5, 0, 0), << <<"5">> >>),
    Rec(StepCount, At(31, 8, 0, 0, 0), At(31, 8, 5, 0, 0), << <<"-","5">> >>),
    Rec(ActiveEnergyBurned, At(0, 8, 0, 0, 0), At(0, 8, 5, 0, 0), << <<"2",".","5">> >>),
    Rec(HeartRate, At(0, 8, 0, 0, 0), At(0, 8, 0, 0, 0), << <<"6","0">> >>),
    Rec(HeartRate, At(0, 8, 0, 0, 0), At(0, 8, 0, 0, 0), << <<"-","6","0">> >>),
    Rec(RestingHeartRate, At(0, 8, 0, 0, 0), At(0, 8, 0, 0, 0), << <<"5","0">> >>),
    Rec(SleepAnalysis, At(0, 22, 0, 0, 0), At(0, 23, 0, 0, 0), Core),
    Rec(SleepAnalysis, At(0, 22, 0, 0, 0), At(0, 23, 0, 0, 0), LowerAsleep),
    Rec(MindfulSession, At(0, 8, 0, 0, 0), At(0, 8, 10, 0, 0), <<>>) }

\* an element that is neither a Record nor a Workout
ExportDate ==
  [ tag |-> "ExportDate", type |-> "", startDate |-> <<>>, endDate |-> <<>>,
    value |-> << <<"2","0","2","3">> >>, workoutActivityType |-> <<>>,
    duration |-> <<>>, durationUnit |-> <<>> ]

NoiseElems ==
  { Rec(BodyMass, At(0, 8, 0, 0, 0), At(0, 8, 0, 0, 0), << <<"7","0">> >>),
    Rec("", At(0, 8, 0, 0, 0), At(0, 8, 0, 0, 0), << <<"5">> >>),
    ExportDate,
    Rec(StepCount, At(0, 8, 0, 0, 0), At(0, 8, 5, 0, 0), << <<"5">> >>),
    Rec(HeartRate, At(0, 8, 0, 0, 0), At(0, 8, 0, 0, 0), << <<"6","0">> >>),
    Rec(SleepAnalysis, At(0, 22, 0, 0, 0), At(0, 23, 0, 0, 0), Core),
    Rec(MindfulSession, At(0, 8, 0, 0, 0), At(0, 8, 10, 0, 0), <<>>),
    Wk(Running, << <<"4","5">> >>, << <<"m","i","n">> >>) }

\* what the external parser may fail to deliver: nothing, every table, or
\* the tables of one group
AllOrNothing == { {}, Flags }

MixedGaps == { {}, Flags, {StepCount}, {SleepAnalysis, MindfulSession} }

SeqsUpTo(U, n) == UNION { [1..k -> U] : k \in 0..n }

\* the state on entry to parse, for an export drawn from U
InitOver(U, G) ==
  /\ xml_file \in SeqsUpTo(U, MaxElems)
  /\ parserGaps \in G
  /\ pc = "steps"
  /\ steps_total = 0 /\ steps_avg = 0 /\ steps_best_month = "" /\ steps_monthly = <<>>
  /\ daily_step_days = 0
  /\ energy_total = 0 /\ energy_avg = 0
  /\ hr_avg = 0 /\ rhr_avg = 0
  /\ sleep_total_h = 0 /\ sleep_avg_h = 0 /\ sleep_best_month = ""
  /\ mindful_total_min = 0 /\ mindful_sessions = 0
  /\ need = [steps |-> FALSE, energy |-> FALSE, hr |-> FALSE, sleep |-> FALSE,
             mindful |-> FALSE]
  /\ wk_count = 0 /\ wk_types = <<>> /\ wk_total_minutes = 0
  /\ metrics = NoMetrics

Init == InitOver(MixedElems, MixedGaps)
Spec == Init /\ [][Next]_vars

InitNoise == InitOver(NoiseElems, AllOrNothing)
SpecNoise == InitNoise /\ [][Next]_vars

InitSteps == InitOver(StepsElems, AllOrNothing)
SpecSteps == InitSteps /\ [][Next]_vars

InitMonths == InitOver(MonthsElems, AllOrNothing)
SpecMonths == InitMonths /\ [][Next]_vars

InitSleep == InitOver(SleepElems, AllOrNothing)
SpecSleep == InitSleep /\ [][Next]_vars

InitMindful == InitOver(MindfulElems, AllOrNothing)
SpecMindful == InitMindful /\ [][Next]_vars

InitWorkouts == InitOver(WorkoutElems, AllOrNothing)
SpecWorkouts == InitWorkouts /\ [][Next]_vars

\* ------------------------------------------------------------- properties

Done == pc = "done"

Merged == pc \in {"workouts", "metrics", "done"}

\* what each path computes from the export, as functions of the input
StructuredSteps == StructSteps(DfFor(xml_file, parserGaps, StepCount))
StructuredEnergy ==
  StructEnergy(DfFor(xml_file, parserGaps, ActiveEnergyBurned), StructuredSteps.days)
StructuredHr == StructHeart(DfFor(xml_file, parserGaps, HeartRate))
StructuredRhr == StructHeart(DfFor(xml_file, parserGaps, RestingHeartRate))
StructuredSleep == StructSleep(DfFor(xml_file, parserGaps, SleepAnalysis))
StructuredMindful == StructMindful(DfFor(xml_file, parserGaps, MindfulSession))
Scanned == _scan_records_once(xml_file)
ScanAggregators == ScanLoop(ScanInit, xml_file)

\* C1: per-category precedence. After the fallback block, the variables of
\* each group (steps, active energy, heart rate, sleep, mindful) hold the
\* values of _scan_records_once when the structured yield of the group is
\* zero (total = 0; for heart rate both means = 0) and the structured values
\* otherwise, whatever the scan computes; the returned fields are these
\* values in their presentation (int, round to two decimals).
C1_Precedence ==
  /\ Merged =>
       /\ <<steps_total, steps_avg, steps_best_month, steps_monthly>> =
            IF StructuredSteps.total = 0
              THEN <<Scanned.steps.total, Scanned.steps.average, Scanned.steps.bestMonth,
                     Scanned.steps.monthlyData>>
              ELSE <<StructuredSteps.total, StructuredSteps.avg, StructuredSteps.best_month,
                     StructuredSteps.monthly>>
       /\ <<energy_total, energy_avg>> =
            IF StructuredEnergy.total = 0
              THEN <<Scanned.energy.total, Scanned.energy.average>>
              ELSE <<StructuredEnergy.total, StructuredEnergy.avg>>
       /\ <<hr_avg, rhr_avg>> =
            IF StructuredHr = 0 /\ StructuredRhr = 0
              THEN <<Scanned.heart.avg, Scanned.heart.rest>>
              ELSE <<StructuredHr, StructuredRhr>>
       /\ <<sleep_total_h, sleep_avg_h, sleep_best_month>> =
            IF StructuredSleep.total = 0
              THEN <<Scanned.sleep.totalHours, Scanned.sleep.averageHours,
                     Scanned.sleep.bestMonth>>
              ELSE <<StructuredSleep.total, StructuredSleep.avg, StructuredSleep.best_month>>
       /\ <<mindful_total_min, mindful_sessions>> =
            IF StructuredMindful.total = 0
              THEN <<Scanned.mindful.total, Scanned.mindful.sessions>>
              ELSE <<StructuredMindful.total, StructuredMindful.sessions>>
  /\ Done =>
       /\ metrics.steps = [ total |-> steps_total, average |-> steps_avg,
                            bestMonth |-> steps_best_month, monthlyData |-> steps_monthly ]
       /\ metrics.activeEnergy = [ total |-> Round2Milli(energy_total), average |-> energy_avg ]
       /\ metrics.heartRate = [ average |-> hr_avg, resting |-> rhr_avg ]
       /\ metrics.sleep = [ averageHours |-> sleep_avg_h,
                            totalHours |-> Round2Hours(sleep_total_h),
                            bestMonth |-> sleep_best_month ]
       /\ metrics.mindfulMinutes = [ total |-> Round2Minutes(mindful_total_min),
                                     sessions |-> mindful_sessions ]

\* C1 witness: every table is delivered; steps yield zero in the structured
\* path (5 and -5) and come from the scan (5), while sleep and heart rate
\* keep structured values the scan disagrees with
C1_Witness ==
  /\ Done
  /\ parserGaps = {}
  /\ StructuredSteps.total = 0 /\ metrics.steps.total = 5
  /\ StructuredSleep.total # 0 /\ Scanned.sleep.totalHours = 0
  /\ metrics.sleep.totalHours = 3600

\* C4: an export with no Workout and no Record of a recognised type returns
\* a summary whose totals, averages and session count are 0, whose
\* monthlyData is empty and whose bestMonth and topAchievement are "".
NoMatchingRecords ==
  \A i \in 1..Len(xml_file) :
    /\ xml_file[i].tag # "Workout"
    /\ xml_file[i].tag = "Record" => xml_file[i].type \notin Flags

C4_EmptyExport ==
  (Done /\ NoMatchingRecords) =>
    /\ metrics.built
    /\ metrics.steps.total = 0 /\ metrics.steps.average = 0
    /\ metrics.steps.monthlyData = <<>> /\ metrics.steps.bestMonth = ""
    /\ metrics.workouts.total = 0 /\ metrics.workouts.totalMinutes = 0
    /\ metrics.sleep.totalHours = 0 /\ metrics.sleep.averageHours = 0
    /\ metrics.sleep.bestMonth = ""
    /\ metrics.heartRate.average = 0 /\ metrics.heartRate.resting = 0
    /\ metrics.activeEnergy.total = 0 /\ metrics.activeEnergy.average = 0
    /\ metrics.mindfulMinutes.total = 0 /\ metrics.mindfulMinutes.sessions = 0
    /\ metrics.insights.topAchievement = ""

\* C4 witness: a returned summary for an export holding only records that
\* match nothing (an unrecognised type, a missing type, another tag)
C4_Witness ==
  /\ Done /\ NoMatchingRecords /\ metrics.built
  /\ Len(xml_file) = 3
  /\ xml_file[1].type = BodyMass /\ xml_file[2].type = "" /\ xml_file[3].tag = "ExportDate"

\* C6: workouts.totalMinutes is the rounded sum, over all Workout elements,
\* of the duration in minutes: times 60 when the unit, compared without
\* regard to case, is hr, hour or hours, unchanged for any other or missing
\* unit, and 0 for a missing or non-numeric duration; every Workout is
\* counted in workouts.total and in workouts.types under its activity type
\* without the HKWorkoutActivityType prefix.
C6_Nodes == SelectSeq(xml_file, LAMBDA e : e.tag = "Workout")

C6_IsHourUnit(w) ==
  /\ w.durationUnit # <<>>
  /\ \E h \in HourUnits :
       /\ Len(h) = Len(w.durationUnit[1])
       /\ \A k \in 1..Len(h) : LowerChar(w.durationUnit[1][k]) = h[k]

C6_Minutes(w) ==
  IF w.duration = <<>> THEN 0
  ELSE IF ParseFloat(w.duration[1]) = <<>> THEN 0
  ELSE IF C6_IsHourUnit(w) THEN 60 * ParseFloat(w.duration[1])[1]
  ELSE ParseFloat(w.duration[1])[1]

C6_Kind(w) ==
  IF w.workoutActivityType = <<>> THEN <<"O","t","h","e","r">>
  ELSE LET t == w.workoutActivityType[1]
       IN IF Len(t) >= Len(WorkoutPrefix) /\ SubSeq(t, 1, Len(WorkoutPrefix)) = WorkoutPrefix
            THEN SubSeq(t, Len(WorkoutPrefix) + 1, Len(t))
            ELSE t

C6_WorkoutMinutes ==
  Done =>
    /\ metrics.workouts.total = Len(C6_Nodes)
    /\ metrics.workouts.totalMinutes =
         RoundHalfEven(SumSeq([i \in 1..Len(C6_Nodes) |-> C6_Minutes(C6_Nodes[i])]), 1000)
    /\ DictKeys(metrics.workouts.types) = { C6_Kind(C6_Nodes[i]) : i \in 1..Len(C6_Nodes) }
    /\ \A i \in 1..Len(C6_Nodes) :
         DictGet(metrics.workouts.types, C6_Kind(C6_Nodes[i])) =
           Cardinality({ j \in 1..Len(C6_Nodes) : C6_Kind(C6_Nodes[j]) = C6_Kind(C6_Nodes[i]) })
    /\ xml_file = << Wk(Running, << <<"2">> >>, << <<"h","r">> >>) >>
         => metrics.workouts.totalMinutes = 120
    /\ xml_file = << Wk(Running, << <<"4","5">> >>, << <<"m","i","n">> >>) >>
         => metrics.workouts.totalMinutes = 45
    /\ xml_file = << Wk(Yoga, << <<"4","5">> >>, <<>>) >>
         => metrics.workouts.totalMinutes = 45

\* C6 witness: a non-numeric duration beside an upper-case hour unit and a
\* unit-less duration: 0 + 90 + 45 minutes, three workouts, two of one type
C6_Witness ==
  /\ Done
  /\ xml_file = << Wk(Running, << <<"a","b","c">> >>, << <<"h","r">> >>),
                   Wk(Yoga, << <<"1",".","5">> >>, << <<"H","R">> >>),
                   Wk(Yoga, << <<"4","5">> >>, <<>>) >>
  /\ metrics.workouts.totalMinutes = 135
  /\ metrics.workouts.total = 3
  /\ DictGet(metrics.workouts.types, <<"Y","o","g","a">>) = 2
  /\ DictGet(metrics.workouts.types, <<"R","u","n","n","i","n","g">>) = 1

\* C3: for steps and for sleep, in whichever path produced the result,
\* bestMonth is "" iff the month-bucket mapping the path built is empty;
\* otherwise it is a key of the mapping whose sum no other bucket exceeds,
\* and among the keys with that maximal sum the first in the mapping's
\* iteration order (insertion order in the scan, ascending keys in the
\* structured path).
C3_StepsMapping ==
  IF StructuredSteps.total = 0 THEN ScanAggregators.steps_monthly
  ELSE IF StructuredSteps.total > 0
    THEN MonthlyNum(DfFor(xml_file, parserGaps, StepCount))
    ELSE <<>>

C3_SleepMapping ==
  IF StructuredSleep.total = 0 THEN ScanAggregators.sleep_monthly_hours
  ELSE MonthlyHours(SleepAsleep(DfFor(xml_file, parserGaps, SleepAnalysis)))

C3_IsBest(best, mapping) ==
  /\ best = "" <=> mapping = <<>>
  /\ mapping # <<>> =>
       \E i \in 1..Len(mapping) :
         /\ best = MonthStr(mapping[i][1])
         /\ \A j \in 1..Len(mapping) : mapping[j][2] <= mapping[i][2]
         /\ \A j \in 1..(i - 1) : mapping[j][2] < mapping[i][2]

C3_BestMonth ==
  Done =>
    /\ C3_IsBest(metrics.steps.bestMonth, C3_StepsMapping)
    /\ C3_IsBest(metrics.sleep.bestMonth, C3_SleepMapping)

\* C3 witness: no table is delivered, the scan meets February before January
\* with equal step sums and reports February
C3_Witness ==
  /\ Done
  /\ parserGaps = Flags
  /\ StructuredSteps.total = 0
  /\ Len(C3_StepsMapping) = 2
  /\ C3_StepsMapping[1] = <<2, 5000>> /\ C3_StepsMapping[2][1] = 1
  /\ metrics.steps.bestMonth = "2023-02"

\* C3, a second reachable case: the structured sleep buckets tie between
\* January and February and January, the first key in ascending order, wins
C3_WitnessStructured ==
  /\ Done
  /\ StructuredSleep.total # 0
  /\ C3_SleepMapping = << <<1, 3600>>, <<2, 3600>> >>
  /\ metrics.sleep.bestMonth = "2023-01"

\* ------------------------------------------------------------- sleep

IsSleepRecord(e) == e.tag = "Record" /\ e.type = SleepAnalysis

\* both timestamps parse and the end is strictly after the start
ValidSpan(e) ==
  /\ ParseDt(e.startDate) # <<>>
  /\ ParseDt(e.endDate) # <<>>
  /\ ParseDt(e.endDate)[1] > ParseDt(e.startDate)[1]

SpanSeconds(e) == ParseDt(e.endDate)[1] - ParseDt(e.startDate)[1]

\* the sleep result of parse for an export, as a function of the input:
\* the total before presentation, the average and the buckets of the path
\* that produced them
SleepOf(elems, gaps) ==
  LET df == DfFor(elems, gaps, SleepAnalysis)
      st == StructSleep(df)
      agg == ScanLoop(ScanInit, elems)
      sc == ScanResult(agg)
  IN IF st.total = 0
       THEN [ total |-> sc.sleep.totalHours, avg |-> sc.sleep.averageHours,
              best |-> sc.sleep.bestMonth, buckets |-> agg.sleep_monthly_hours ]
       ELSE [ total |-> st.total, avg |-> st.avg, best |-> st.best_month,
              buckets |-> MonthlyHours(SleepAsleep(df)) ]

\* C5: a sleep record whose end is not strictly after its start, or whose
\* start or end does not parse, changes neither sleep.totalHours nor the sum
\* of any sleep month bucket nor the best month: the result for the export
\* is the result for the export without these records, in both paths.
C5_WithoutInvalid ==
  SelectSeq(xml_file, LAMBDA e : ~(IsSleepRecord(e) /\ ~ValidSpan(e)))

C5_InvalidSleepIgnored ==
  Done =>
    LET kept == SleepOf(C5_WithoutInvalid, parserGaps)
    IN /\ metrics.sleep.totalHours = Round2Hours(kept.total)
       /\ metrics.sleep.bestMonth = kept.best
       /\ \A m \in 1..12 :
            DictGet(SleepOf(xml_file, parserGaps).buckets, m) = DictGet(kept.buckets, m)

\* C5 witness: the structured path sums one hour of sleep beside a segment
\* that ends when it starts and a segment that ends before it starts
C5_Witness ==
  /\ Done
  /\ parserGaps = {}
  /\ Len(xml_file) = 3 /\ Len(C5_WithoutInvalid) = 1
  /\ \E i \in 1..3 : IsSleepRecord(xml_file[i]) /\ xml_file[i].endDate = xml_file[i].startDate
  /\ \E i \in 1..3 :
       /\ IsSleepRecord(xml_file[i]) /\ ParseDt(xml_file[i].endDate) # <<>>
       /\ ParseDt(xml_file[i].startDate) # <<>>
       /\ ParseDt(xml_file[i].endDate)[1] < ParseDt(xml_file[i].startDate)[1]
  /\ StructuredSleep.total = 3600
  /\ metrics.sleep.totalHours = 3600

\* C5, the same case in the scan path
C5_WitnessScan ==
  /\ Done
  /\ parserGaps = Flags
  /\ Len(xml_file) = 3 /\ Len(C5_WithoutInvalid) = 1
  /\ metrics.sleep.totalHours = 3600

\* the text of a value attribute, "" when it is absent
ValueText(e) == IF e.value = <<>> THEN <<>> ELSE e.value[1]

\* the label tests the claims speak of: the allow-list, or the substring
\* "Asleep" matched with or without regard to case
LabelCased(e) == ValueText(e) \in asleep_values \/ Contains(Asleep, ValueText(e))

LabelUncased(e) ==
  ValueText(e) \in asleep_values \/ Contains(Lower(Asleep), Lower(ValueText(e)))

\* the seconds of the sleep records with a valid span whose label passes
SleepSeconds(Label(_)) ==
  SumSeq([i \in 1..Len(xml_file) |->
            IF IsSleepRecord(xml_file[i]) /\ ValidSpan(xml_file[i]) /\ Label(xml_file[i])
              THEN SpanSeconds(xml_file[i]) ELSE 0])

\* the UTC dates on which such a record starts
SleepNights(Label(_)) ==
  { DayKey(ParseDt(xml_file[i].startDate)[1]) :
      i \in { j \in 1..Len(xml_file) :
                IsSleepRecord(xml_file[j]) /\ ValidSpan(xml_file[j]) /\ Label(xml_file[j]) } }

\* C8 (as claimed): sleep.averageHours is the sleep total divided by the
\* number of distinct UTC dates on which a valid asleep segment starts
\* (both timestamps parse, end after start, asleep label as the path that
\* produced the total tests it), rounded to two decimals; a date on which
\* only invalid segments start does not count, in either path.
C8_AveragePerValidNight ==
  Done =>
    metrics.sleep.averageHours =
      IF StructuredSleep.total # 0
        THEN 36 * RoundHalfEven(SleepSeconds(LabelUncased),
                                36 * Max(1, Cardinality(SleepNights(LabelUncased))))
        ELSE IF SleepSeconds(LabelCased) = 0 THEN 0
        ELSE 36 * RoundHalfEven(SleepSeconds(LabelCased),
                                36 * Max(1, Cardinality(SleepNights(LabelCased))))

\* C9 (as claimed): the substring match is case-insensitive in the scan and
\* case-sensitive in the structured path, so the returned total is the
\* scan's uncased sum when the sleep table is missing or the structured
\* cased sum is zero, and the structured cased sum otherwise.
C9_AsClaimed ==
  Done =>
    metrics.sleep.totalHours =
      Round2Hours(IF SleepAnalysis \in parserGaps \/ SleepSeconds(LabelCased) = 0
                    THEN SleepSeconds(LabelUncased)
                    ELSE SleepSeconds(LabelCased))

\* C9 (amended): a sleep record is asleep iff its value is in the allow-list
\* or contains "Asleep", matched with regard to case in the scan and without
\* regard to case in the structured path: the returned total is the
\* structured uncased sum when the table is delivered and that sum is not
\* zero, and the scan's cased sum otherwise; a value that is not in the
\* allow-list and contains "Asleep" in no case adds nothing in either path.
C9_AsleepLabels ==
  Done =>
    /\ metrics.sleep.totalHours =
         Round2Hours(IF SleepAnalysis \in parserGaps \/ SleepSeconds(LabelUncased) = 0
                       THEN SleepSeconds(LabelCased)
                       ELSE SleepSeconds(LabelUncased))
    /\ StructuredSleep.total =
         (IF SleepAnalysis \in parserGaps THEN 0 ELSE SleepSeconds(LabelUncased))
    /\ Scanned.sleep.totalHours = Round2Hours(SleepSeconds(LabelCased))

\* C9 witness: one hour labelled "asleep" in lower case, delivered in the
\* table: the structured path counts it, the scan of the same file does not
C9_Witness ==
  /\ Done
  /\ parserGaps = {}
  /\ xml_file = << Rec(SleepAnalysis, At(0, 22, 0, 0, 0), At(0, 23, 0, 0, 0), LowerAsleep) >>
  /\ metrics.sleep.totalHours = 3600
  /\ Scanned.sleep.totalHours = 0

\* ------------------------------------------------------------- mindful

IsMindfulRecord(e) == e.tag = "Record" /\ e.type = MindfulSession

C10_Valid == { i \in 1..Len(xml_file) : IsMindfulRecord(xml_file[i]) /\ ValidSpan(xml_file[i]) }

\* C10 (as claimed): mindfulMinutes.sessions is the number of mindful records
\* whose start and end parse with the end strictly after the start, and
\* mindfulMinutes.total the sum of the minutes of exactly those records; any
\* other mindful record adds to neither, in either path.
C10_SessionsAreValidRecords ==
  Done =>
    /\ metrics.mindfulMinutes.sessions = Cardinality(C10_Valid)
    /\ metrics.mindfulMinutes.total =
         Round2Minutes(5 * SumSeq([i \in 1..Len(xml_file) |->
                                     IF i \in C10_Valid THEN SpanSeconds(xml_file[i]) ELSE 0]))

\* ------------------------------------------------------------- steps and energy

\* value > 0 and a start timestamp that parses
Counted(e, type) ==
  /\ e.tag = "Record" /\ e.type = type
  /\ ParseDt(e.startDate) # <<>>
  /\ e.value # <<>> /\ ParseFloat(e.value[1]) # <<>> /\ ParseFloat(e.value[1])[1] > 0

CountedSum(type, InBucket(_)) ==
  SumSeq([i \in 1..Len(xml_file) |->
            IF Counted(xml_file[i], type) /\ InBucket(xml_file[i])
              THEN ParseFloat(xml_file[i].value[1])[1] ELSE 0])

AnyBucket(e) == TRUE

\* C2 (as claimed): for steps and active energy, in both paths, the reported
\* total is the sum of the values of exactly the records with value > 0 and
\* a start that parses (as an integer for steps, to two decimals for
\* energy), and every reported month of steps carries the sum of exactly
\* those records of that month.
C2_TotalsOfCountedRecords ==
  Done =>
    /\ metrics.steps.total \in { RoundHalfEven(CountedSum(StepCount, AnyBucket), 1000),
                                 TruncDiv(CountedSum(StepCount, AnyBucket), 1000) }
    /\ metrics.activeEnergy.total = Round2Milli(CountedSum(ActiveEnergyBurned, AnyBucket))
    /\ \A k \in 1..Len(metrics.steps.monthlyData) :
         LET InMonth(e) == MonthStr(MonthKey(ParseDt(e.startDate)[1])) =
                             metrics.steps.monthlyData[k].month
         IN metrics.steps.monthlyData[k].value \in
              { RoundHalfEven(CountedSum(StepCount, InMonth), 1000),
                TruncDiv(CountedSum(StepCount, InMonth), 1000) }

\* the day buckets a path builds for a category
DayBucketsOf(type) ==
  IF type = StepCount
    THEN IF StructuredSteps.total = 0
           THEN DictKeys(ScanAggregators.steps_daily)
           ELSE DayGroups(DfFor(xml_file, parserGaps, StepCount))
    ELSE IF StructuredEnergy.total = 0
           THEN DictKeys(ScanAggregators.energy_daily)
           ELSE DayGroups(DfFor(xml_file, parserGaps, ActiveEnergyBurned))

\* C7 (as claimed, for positive totals): the reported average of steps and
\* of active energy is the category's total divided by max(1, number of its
\* own distinct UTC day buckets), rounded to an integer; with no day bucket
\* of its own the divisor is 1, whatever the other category's day count.
C7_AverageOverOwnDays ==
  Done =>
    /\ (StructuredSteps.total > 0 =>
          metrics.steps.average =
            RoundHalfEven(StructuredSteps.total, Max(1, Cardinality(DayBucketsOf(StepCount)))))
    /\ (StructuredSteps.total = 0 =>
          metrics.steps.average =
            RoundHalfEven(ScanAggregators.steps_total,
                          1000 * Max(1, Cardinality(DayBucketsOf(StepCount)))))
    /\ (StructuredEnergy.total > 0 =>
          metrics.activeEnergy.average =
            RoundHalfEven(StructuredEnergy.total,
                          1000 * Max(1, Cardinality(DayBucketsOf(ActiveEnergyBurned)))))
    /\ (StructuredEnergy.total = 0 =>
          metrics.activeEnergy.average =
            RoundHalfEven(ScanAggregators.energy_total,
                          1000 * Max(1, Cardinality(DayBucketsOf(ActiveEnergyBurned)))))

====
